---- MODULE Spec2Model ----
(***************************************************************************)
(* EEG pipeline: the ingestion endpoint (pipeline/api.py ingest_eeg_data), *)
(* the two tables it writes (pipeline/models.py) and the query endpoints,  *)
(* run by a pool of request workers that share one database.               *)
(* The device simulator (pipeline/simulator.py stream_chunks_to_api) is    *)
(* the client that posts the chunks of a recording one after the other.    *)
(*                                                                         *)
(* Numbers: chunk_index is an integer; timestamp_sec, chunk_start_sec and  *)
(* chunk_end_sec are Double columns.  They are modelled as exact rationals *)
(* in lowest terms ([num, den]); the doubles of the handler round them,    *)
(* and order and compare like them for the small magnitudes explored here. *)
(***************************************************************************)
EXTENDS Integers, Sequences, FiniteSets, TLC

VARIABLES
    eeg_samples,     \* committed rows of table eeg_samples, in id order
    ingestion_log,   \* committed rows of table ingestion_log, in id order
    pc,              \* per worker: "idle" or "staged" (rows added, commit pending)
    request,         \* per worker: the body of the request it handles / handled last
    session,         \* per worker: rows added to its Session, not yet committed
    response,        \* per worker: the response to its last request
    query,           \* the response a query endpoint sent in the last step, if any
    nreq,            \* number of requests received so far
    sim              \* the device simulator: its loop and what it posted and got back

vars == <<eeg_samples, ingestion_log, pc, request, session, response, query, nreq, sim>>

----------------------------------------------------------------------------
(* Bounds of the exploration *)

MaxRequests == 2
MaxChunkIndex == 1
MaxChannels == 2
MaxSamples == 2

Workers == {"w1", "w2"}

----------------------------------------------------------------------------
(* Rationals in lowest terms *)

RECURSIVE Gcd(_, _)
Gcd(a, b) == IF b = 0 THEN a ELSE Gcd(b, a % b)

Frac(n, d) == LET g == Gcd(n, d) IN [num |-> n \div g, den |-> d \div g]

FracOfInt(n) == [num |-> n, den |-> 1]

FracLt(x, y) == x.num * y.den < y.num * x.den

FracLe(x, y) == x.num * y.den <= y.num * x.den

----------------------------------------------------------------------------
(* Request bodies *)

\* recording ids are strings; they are kept as sequences of characters so that
\* split("_") can be computed on them
RecordingIds == { <<"a", "_", "1">>, <<"a", "_", "2">>, <<"b">> }

ChannelNames == <<"FP1-F7", "F7-T7", "T7-P7", "P7-O1">>

RequiredFields == {"recording_id", "chunk_index", "channels", "data", "timestamp"}

ChunkIndices == 0 .. MaxChunkIndex

Min(a, b) == IF a < b THEN a ELSE b

\* the channel lists sent: the first c channel names, in order
ChannelLists == { SubSeq(ChannelNames, 1, c) : c \in 0 .. Min(MaxChannels, Len(ChannelNames)) }

\* row lengths of a 2-D data list: up to MaxChannels rows of up to MaxSamples values
Shapes == UNION { [1 .. n -> 0 .. MaxSamples] : n \in 0 .. MaxChannels }

\* two different contents for every shape
Bases == {0, 10}

DataOf(shape, base) ==
    [i \in 1 .. Len(shape) |-> [j \in 1 .. shape[i] |-> base + (i - 1) * MaxSamples + j]]

Payloads ==
    { [channels |-> ch, data |-> DataOf(sh, b)] : ch \in ChannelLists, sh \in Shapes, b \in Bases }

\* the shape constraints of a chunk: data non-empty, rectangular with at least one
\* sample per row, and one row per channel
Rectangular(data) == \A i \in 1 .. Len(data) : Len(data[i]) = Len(data[1])

ValidChunk(b) ==
    /\ Len(b.data) >= 1
    /\ Rectangular(b.data)
    /\ Len(b.data[1]) >= 1
    /\ Len(b.channels) = Len(b.data)

Body(rid, idx, p) ==
    [recording_id |-> rid, chunk_index |-> idx, channels |-> p.channels,
     data |-> p.data, timestamp |-> 0]

\* every shape of chunk, valid or not, for one recording
ShapeBodies == { Body(<<"a", "_", "1">>, idx, p) : idx \in ChunkIndices, p \in Payloads }

\* the chunks sent by the clients of the concurrent and of the sequential runs:
\* a one-channel, one-sample chunk and a full chunk with other values
CorePayloads ==
    { [channels |-> SubSeq(ChannelNames, 1, 1), data |-> DataOf(<<1>>, 0)],
      [channels |-> SubSeq(ChannelNames, 1, Min(MaxChannels, Len(ChannelNames))),
       data |-> DataOf([i \in 1 .. Min(MaxChannels, Len(ChannelNames)) |-> MaxSamples], 10)] }

\* bodies that lack required fields (tests/test_api.py test_ingest_validation_error)
MalformedBodies == { [recording_id |-> rid] : rid \in {<<"a", "_", "1">>} }

Bodies ==
    { Body(rid, idx, p) : rid \in RecordingIds, idx \in ChunkIndices, p \in CorePayloads }
        \cup MalformedBodies

\* chunks that break a shape constraint: no row, a row of no sample, more rows
\* than channels
BadPayloads ==
    { [channels |-> SubSeq(ChannelNames, 1, 1), data |-> <<>>],
      [channels |-> SubSeq(ChannelNames, 1, 1), data |-> DataOf(<<0>>, 0)],
      [channels |-> SubSeq(ChannelNames, 1, 1), data |-> DataOf(<<1, 1>>, 0)] }

\* a well-formed body with one required field left out, for each field
MissingFieldBodies ==
    LET full == Body(<<"a", "_", "1">>, 0,
                     [channels |-> SubSeq(ChannelNames, 1, 1), data |-> DataOf(<<1>>, 0)])
    IN { [f \in RequiredFields \ {x} |-> full[f]] : x \in RequiredFields }

\* the sequential client also sends the malformed chunks, for one recording
SeqBodies ==
    Bodies \cup { Body(<<"a", "_", "1">>, idx, p) : idx \in ChunkIndices, p \in BadPayloads }
           \cup MissingFieldBodies

\* the recordings queried: a_1 has one channel, the others all channels
QueryBodies ==
    { b \in Bodies :
        /\ b \notin MalformedBodies
        /\ (Len(b.channels) = 1) <=> (b.recording_id = <<"a", "_", "1">>) }

NoRequest == [none |-> TRUE]

----------------------------------------------------------------------------
(* pipeline/schemas.py *)

\* pydantic accepts a body iff every field of IngestRequest is present (the
\* values sent are of the declared types); it checks no shape constraint
\* (faulty variant) timestamp, which the handler never reads, is optional
IngestRequest_timestamp_optional(body) == (RequiredFields \ {"timestamp"}) \subseteq DOMAIN body

IngestRequest(body) == RequiredFields \subseteq DOMAIN body

IngestResponse(status, message) == [status |-> status, message |-> message]

\* FastAPI's answers to a request the handler did not answer
Http422 == [status |-> "422", message |-> "Unprocessable Entity"]

Http500 == [status |-> "500", message |-> "Internal Server Error"]

NoResponse == [status |-> "none", message |-> ""]

----------------------------------------------------------------------------
(* pipeline/models.py *)

EegSample(patient_id, recording_id, channel, timestamp_sec, value_uv) ==
    [patient_id |-> patient_id, recording_id |-> recording_id, channel |-> channel,
     timestamp_sec |-> timestamp_sec, value_uv |-> value_uv]

IngestionLog(patient_id, recording_id, chunk_start_sec, chunk_end_sec, num_samples, checksum) ==
    [patient_id |-> patient_id, recording_id |-> recording_id,
     chunk_start_sec |-> chunk_start_sec, chunk_end_sec |-> chunk_end_sec,
     num_samples |-> num_samples, checksum |-> checksum]

----------------------------------------------------------------------------
(* pipeline/api.py: helpers of ingest_eeg_data *)

\* (faulty variant) the patient is the whole recording id
split_whole(s) == s

\* recording_id.split("_")[0]: the characters before the first "_"
RECURSIVE split0(_)
split0(s) ==
    IF s = <<>> \/ Head(s) = "_" THEN <<>> ELSE <<Head(s)>> \o split0(Tail(s))

\* json.dumps of a list of floats and of a list of such lists (the values are
\* whole numbers held as floats: 1.0 is written "1.0")
RECURSIVE dumps_row(_)
dumps_row(row) ==
    IF row = <<>> THEN ""
    ELSE IF Len(row) = 1 THEN ToString(row[1]) \o ".0"
    ELSE ToString(row[1]) \o ".0, " \o dumps_row(Tail(row))

RECURSIVE dumps_rows(_)
dumps_rows(data) ==
    IF data = <<>> THEN ""
    ELSE IF Len(data) = 1 THEN "[" \o dumps_row(data[1]) \o "]"
    ELSE "[" \o dumps_row(data[1]) \o "], " \o dumps_rows(Tail(data))

json_dumps(data) == "[" \o dumps_rows(data) \o "]"

\* hashlib.sha256(...).hexdigest(): a digest that identifies the bytes hashed
sha256_hexdigest(bytes) == [sha256 |-> bytes]

\* (faulty variant) the lookup compares chunk_end_sec instead of chunk_start_sec
existing_by_end(log, req) ==
    { i \in 1 .. Len(log) :
        /\ log[i].recording_id = req.recording_id
        /\ log[i].chunk_end_sec = FracOfInt(req.chunk_index) }

\* (faulty variant) the lookup also compares the checksum of the payload
existing_by_checksum(log, req) ==
    { i \in 1 .. Len(log) :
        /\ log[i].recording_id = req.recording_id
        /\ log[i].chunk_start_sec = FracOfInt(req.chunk_index)
        /\ log[i].checksum = sha256_hexdigest(json_dumps(req.data)) }

\* (faulty variant) the lookup is by recording only
existing_by_recording(log, req) ==
    { i \in 1 .. Len(log) : log[i].recording_id = req.recording_id }

\* the log entry looked up by the duplicate check, lines 38-44
existing(log, req) ==
    { i \in 1 .. Len(log) :
        /\ log[i].recording_id = req.recording_id
        /\ log[i].chunk_start_sec = FracOfInt(req.chunk_index) }

\* (faulty variant) the timestamp counts the samples from 1
RECURSIVE expand_from_one(_, _, _, _, _)
expand_from_one(req, sfreq, ch_idx, sample_idx, acc) ==
    IF ch_idx > Len(req.channels) THEN [raise |-> "", samples |-> acc]
    ELSE IF ch_idx > Len(req.data) THEN [raise |-> "IndexError", samples |-> acc]
    ELSE IF sample_idx > Len(req.data[ch_idx])
         THEN expand_from_one(req, sfreq, ch_idx + 1, 1, acc)
    ELSE IF sfreq = 0 THEN [raise |-> "ZeroDivisionError", samples |-> acc]
    ELSE expand_from_one(req, sfreq, ch_idx, sample_idx + 1,
                Append(acc, EegSample(split0(req.recording_id),
                                      req.recording_id,
                                      req.channels[ch_idx],
                                      Frac(req.chunk_index * sfreq + sample_idx, sfreq),
                                      req.data[ch_idx][sample_idx])))

\* the two nested loops of lines 50-60, from (ch_idx, sample_idx) on (1-based here);
\* raise is "" when the loops finish, else the exception that ends them
RECURSIVE expand(_, _, _, _, _)
expand(req, sfreq, ch_idx, sample_idx, acc) ==
    IF ch_idx > Len(req.channels) THEN [raise |-> "", samples |-> acc]
    ELSE IF ch_idx > Len(req.data) THEN [raise |-> "IndexError", samples |-> acc]
    ELSE IF sample_idx > Len(req.data[ch_idx]) THEN expand(req, sfreq, ch_idx + 1, 1, acc)
    ELSE IF sfreq = 0 THEN [raise |-> "ZeroDivisionError", samples |-> acc]
    ELSE expand(req, sfreq, ch_idx, sample_idx + 1,
                Append(acc, EegSample(split0(req.recording_id),
                                      req.recording_id,
                                      req.channels[ch_idx],
                                      Frac(req.chunk_index * sfreq + (sample_idx - 1), sfreq),
                                      req.data[ch_idx][sample_idx])))

\* lines 62-70
log_entry(req, sfreq) ==
    IngestionLog(split0(req.recording_id),
                 req.recording_id,
                 FracOfInt(req.chunk_index),
                 Frac(req.chunk_index * sfreq + Len(req.data[1]), sfreq),
                 Len(req.data[1]) * Len(req.channels),
                 sha256_hexdigest(json_dumps(req.data)))

\* lines 48-71: the rows handed to db.add_all, or the exception raised before it
stage(req) ==
    IF Len(req.data) = 0 THEN [raise |-> "IndexError", samples |-> <<>>, log |-> <<>>]
    ELSE LET sfreq == Len(req.data[1])
             e == expand(req, sfreq, 1, 1, <<>>)
         IN IF e.raise # "" THEN [raise |-> e.raise, samples |-> <<>>, log |-> <<>>]
            ELSE IF sfreq = 0
                 THEN [raise |-> "ZeroDivisionError", samples |-> <<>>, log |-> <<>>]
            ELSE [raise |-> "", samples |-> e.samples, log |-> <<log_entry(req, sfreq)>>]

EmptySession == [samples |-> <<>>, log |-> <<>>]

NoQuery == [endpoint |-> "none"]

\* path and query parameters of the query endpoints
PatientIds == { split0(rid) : rid \in RecordingIds } \cup { <<"z">> }

QueryTimes == { FracOfInt(k) : k \in 0 .. MaxChunkIndex + 1 } \cup { Frac(1, 2) }

----------------------------------------------------------------------------
(* pipeline/api.py ingest_eeg_data, run by worker w (pipeline/db.py get_db gives *)
(* it a Session of its own)                                                  *)

\* POST /api/ingest/ up to db.add_all: schema validation, the duplicate check and
\* the expansion.  The check reads the committed tables; the rest is local to w.
ingest_eeg_data(w, body) ==
    /\ pc[w] = "idle"
    /\ request' = [request EXCEPT ![w] = body]
    /\ nreq' = nreq + 1
    /\ query' = NoQuery
    /\ UNCHANGED <<eeg_samples, ingestion_log>>
    /\ IF ~IngestRequest(body)
       THEN /\ response' = [response EXCEPT ![w] = Http422]
            /\ UNCHANGED <<pc, session>>
       ELSE IF existing(ingestion_log, body) # {}
       THEN /\ response' = [response EXCEPT ![w] =
                               IngestResponse("duplicate", "Chunk already ingested")]
            /\ UNCHANGED <<pc, session>>
       ELSE LET st == stage(body)
            IN IF st.raise # ""
               THEN \* an unhandled exception: FastAPI answers 500, get_db closes
                    \* the Session
                    /\ response' = [response EXCEPT ![w] = Http500]
                    /\ UNCHANGED <<pc, session>>
               ELSE /\ pc' = [pc EXCEPT ![w] = "staged"]
                    /\ session' = [session EXCEPT ![w] =
                                      [samples |-> st.samples, log |-> st.log]]
                    /\ response' = [response EXCEPT ![w] = NoResponse]

\* (faulty variant) the samples are committed, the log entry is not
commit_samples_only(w) ==
    /\ pc[w] = "staged"
    /\ eeg_samples' = eeg_samples \o session[w].samples
    /\ session' = [session EXCEPT ![w] = EmptySession]
    /\ pc' = [pc EXCEPT ![w] = "idle"]
    /\ response' = [response EXCEPT ![w] =
                       IngestResponse("success", "Chunk ingested successfully")]
    /\ query' = NoQuery
    /\ UNCHANGED <<ingestion_log, request, nreq>>

\* (faulty variant) the commit replaces the sample table by the staged rows
commit_overwrites(w) ==
    /\ pc[w] = "staged"
    /\ eeg_samples' = session[w].samples
    /\ ingestion_log' = ingestion_log \o session[w].log
    /\ session' = [session EXCEPT ![w] = EmptySession]
    /\ pc' = [pc EXCEPT ![w] = "idle"]
    /\ response' = [response EXCEPT ![w] =
                       IngestResponse("success", "Chunk ingested successfully")]
    /\ query' = NoQuery
    /\ UNCHANGED <<request, nreq>>

\* db.commit() succeeds: the rows of the Session become visible together
commit(w) ==
    /\ pc[w] = "staged"
    /\ eeg_samples' = eeg_samples \o session[w].samples
    /\ ingestion_log' = ingestion_log \o session[w].log
    /\ session' = [session EXCEPT ![w] = EmptySession]
    /\ pc' = [pc EXCEPT ![w] = "idle"]
    /\ response' = [response EXCEPT ![w] =
                       IngestResponse("success", "Chunk ingested successfully")]
    /\ query' = NoQuery
    /\ UNCHANGED <<request, nreq>>

\* (faulty variant) the failed request leaves the samples it inserted behind
commit_fails_partial(w) ==
    /\ pc[w] = "staged"
    /\ eeg_samples' = eeg_samples \o session[w].samples
    /\ session' = [session EXCEPT ![w] = EmptySession]
    /\ pc' = [pc EXCEPT ![w] = "idle"]
    /\ response' = [response EXCEPT ![w] = Http500]
    /\ query' = NoQuery
    /\ UNCHANGED <<ingestion_log, request, nreq>>

\* db.commit() raises, or the request is aborted before it: get_db's finally
\* closes the Session, which rolls its transaction back
commit_fails(w) ==
    /\ pc[w] = "staged"
    /\ session' = [session EXCEPT ![w] = EmptySession]
    /\ pc' = [pc EXCEPT ![w] = "idle"]
    /\ response' = [response EXCEPT ![w] = Http500]
    /\ query' = NoQuery
    /\ UNCHANGED <<eeg_samples, ingestion_log, request, nreq>>

----------------------------------------------------------------------------
(* pipeline/api.py: the query endpoints *)

\* (faulty variant) the range is closed at end_sec
in_range_closed(timestamp_sec, start_sec, end_sec) ==
    FracLe(start_sec, timestamp_sec) /\ FracLe(timestamp_sec, end_sec)

\* .filter(timestamp_sec >= start_sec).filter(timestamp_sec < end_sec), lines 131-132
in_range(timestamp_sec, start_sec, end_sec) ==
    FracLe(start_sec, timestamp_sec) /\ FracLt(timestamp_sec, end_sec)

\* the ids of the rows selected by lines 129-132
selected(samples, patient_id, recording_id, start_sec, end_sec) ==
    { i \in 1 .. Len(samples) :
        /\ samples[i].patient_id = patient_id
        /\ samples[i].recording_id = recording_id
        /\ in_range(samples[i].timestamp_sec, start_sec, end_sec) }

\* the fields of a row that the response carries, lines 142-146
sample_json(s) ==
    [channel |-> s.channel, timestamp_sec |-> s.timestamp_sec, value_uv |-> s.value_uv]

\* the timestamp that ORDER BY timestamp_sec puts first among the rows ids
first_timestamp(samples, ids) ==
    CHOOSE t \in { samples[i].timestamp_sec : i \in ids } :
        \A i \in ids : FracLe(t, samples[i].timestamp_sec)

\* .order_by(EegSample.timestamp_sec), line 133.  The database leaves the order of
\* rows with equal timestamps open, so the result is kept as the sequence of
\* groups of equal timestamp, each group the bag of its rows.
RECURSIVE order_by(_, _)
order_by(samples, ids) ==
    IF ids = {} THEN <<>>
    ELSE LET t == first_timestamp(samples, ids)
             g == { i \in ids : samples[i].timestamp_sec = t }
             rows == { sample_json(samples[i]) : i \in g }
         IN <<[timestamp_sec |-> t,
               rows |-> [r \in rows |->
                           Cardinality({ i \in g : sample_json(samples[i]) = r })]]>>
                \o order_by(samples, ids \ g)

\* (faulty variant) an empty selection is answered with not-found, as the summaries do
get_recording_data_404(patient_id, recording_id, start_sec, end_sec) ==
    /\ LET ids == selected(eeg_samples, patient_id, recording_id, start_sec, end_sec)
       IN query' =
            IF ids = {}
            THEN [endpoint |-> "data", status |-> "404",
                  patient_id |-> patient_id, recording_id |-> recording_id,
                  start_sec |-> start_sec, end_sec |-> end_sec]
            ELSE [endpoint |-> "data", status |-> "200",
                  patient_id |-> patient_id, recording_id |-> recording_id,
                  start_sec |-> start_sec, end_sec |-> end_sec,
                  samples |-> order_by(eeg_samples, ids)]
    /\ UNCHANGED <<eeg_samples, ingestion_log, pc, request, session, response, nreq>>

\* GET /api/eeg/{patient_id}/recordings/{recording_id}/data
get_recording_data(patient_id, recording_id, start_sec, end_sec) ==
    /\ query' = [endpoint |-> "data", status |-> "200",
                 patient_id |-> patient_id, recording_id |-> recording_id,
                 start_sec |-> start_sec, end_sec |-> end_sec,
                 samples |-> order_by(eeg_samples,
                                selected(eeg_samples, patient_id, recording_id,
                                         start_sec, end_sec))]
    /\ UNCHANGED <<eeg_samples, ingestion_log, pc, request, session, response, nreq>>

\* (faulty variant) the summary never answers not-found
not_found_never(total_samples) == FALSE

\* if total_samples == 0: raise HTTPException(status_code=404), lines 81 and 103
not_found(total_samples) == total_samples = 0

\* .filter_by(patient_id=patient_id), lines 80 and 84
by_patient(samples, patient_id) ==
    { i \in 1 .. Len(samples) : samples[i].patient_id = patient_id }

\* (faulty variant) the recording filter is left out
by_recording_any(samples, patient_id, recording_id) ==
    { i \in 1 .. Len(samples) : samples[i].patient_id = patient_id }

\* .filter_by(patient_id=patient_id, recording_id=recording_id), lines 100 and 107
by_recording(samples, patient_id, recording_id) ==
    { i \in 1 .. Len(samples) :
        /\ samples[i].patient_id = patient_id
        /\ samples[i].recording_id = recording_id }

\* db.query(EegSample.channel)...distinct().all(): the distinct channels, in an
\* order the database chooses, kept as their set
distinct_channels(samples, ids) == { samples[i].channel : i \in ids }

\* GET /api/eeg/{patient_id}/recordings.  The count and the channels are read one
\* after the other; rows are never deleted, so they are taken here in one step.
get_patient_recordings(patient_id) ==
    /\ LET ids == by_patient(eeg_samples, patient_id)
           total_samples == Cardinality(ids)
       IN query' =
            IF not_found(total_samples)
            THEN [endpoint |-> "recordings", status |-> "404",
                  patient_id |-> patient_id, detail |-> "Patient not found"]
            ELSE [endpoint |-> "recordings", status |-> "200",
                  patient_id |-> patient_id, total_samples |-> total_samples,
                  channels |-> distinct_channels(eeg_samples, ids)]
    /\ UNCHANGED <<eeg_samples, ingestion_log, pc, request, session, response, nreq>>

\* GET /api/eeg/{patient_id}/recordings/{recording_id}/summary
get_recording_summary(patient_id, recording_id) ==
    /\ LET ids == by_recording(eeg_samples, patient_id, recording_id)
           total_samples == Cardinality(ids)
       IN query' =
            IF not_found(total_samples)
            THEN [endpoint |-> "summary", status |-> "404",
                  patient_id |-> patient_id, recording_id |-> recording_id,
                  detail |-> "Recording not found"]
            ELSE [endpoint |-> "summary", status |-> "200",
                  patient_id |-> patient_id, recording_id |-> recording_id,
                  total_samples |-> total_samples,
                  channels |-> distinct_channels(eeg_samples, ids)]
    /\ UNCHANGED <<eeg_samples, ingestion_log, pc, request, session, response, nreq>>

\* GET /health
health_check ==
    /\ query' = [endpoint |-> "health", status |-> "200",
                 body |-> IngestResponse("healthy", "API is up and running")]
    /\ UNCHANGED <<eeg_samples, ingestion_log, pc, request, session, response, nreq>>

----------------------------------------------------------------------------
(* pipeline/simulator.py: stream_chunks_to_api, the client of POST /api/ingest/ *)

\* the runs of the simulator that are followed
MaxRuns == 2

\* chunks: one chunk for each second of the file, each of all channels x sfreq
\* values (make_chunk)
chunks == MaxChunkIndex + 1

\* the values of limit: None (as 0) or a number of chunks
Limits == 0 .. chunks

\* len(chunks_to_send) for chunks_to_send = chunks[:limit] if limit else chunks,
\* lines 56-57
total(limit) == IF limit # 0 THEN Min(limit, chunks) ELSE chunks

\* the payload of iteration i of the loop, lines 61-67
payload(recording_id, i) ==
    Body(recording_id, i,
         [channels |-> SubSeq(ChannelNames, 1, Min(MaxChannels, Len(ChannelNames))),
          data |-> DataOf([c \in 1 .. Min(MaxChannels, Len(ChannelNames)) |-> MaxSamples], 10)])

\* the simulator before its first run.  posted and replies are what the current
\* run sent (the chunk_index of each POST) and got back, in order.
SimOff ==
    [state |-> "off", run |-> 0, recording_id |-> <<>>, total |-> 0, i |-> 0,
     worker |-> "none", posted |-> <<>>, replies |-> <<>>]

\* (faulty variant) no status raises
raise_for_status_never(status) == FALSE

\* response.raise_for_status(), line 70: raises for a 4xx or 5xx answer; the
\* handler's "success" and "duplicate" are both HTTP 200
raise_for_status(status) == status \notin {"success", "duplicate"}

\* lines 70-76 once the answer is there: an HTTP error breaks the loop, any
\* other answer lets it go on to the next chunk, or end after the last
on_response(s, status) ==
    IF raise_for_status(status)
    THEN [s EXCEPT !.state = "stopped", !.replies = Append(@, status)]
    ELSE [s EXCEPT !.state = IF s.i + 1 = s.total THEN "done" ELSE "sending",
                   !.i = @ + 1,
                   !.replies = Append(@, status)]

\* a call of stream_chunks_to_api, once the call before it has returned: the
\* loop starts at chunk 0 (lines 56-60)
stream_chunks_to_api(recording_id, limit) ==
    /\ sim.state \in {"off", "stopped", "done"}
    /\ sim.run < MaxRuns
    /\ sim' = [state |-> "sending", run |-> sim.run + 1,
               recording_id |-> recording_id, total |-> total(limit), i |-> 0,
               worker |-> "none", posted |-> <<>>, replies |-> <<>>]
    /\ UNCHANGED <<eeg_samples, ingestion_log, pc, request, session, response, query, nreq>>

\* client.post(api_url, json=payload), line 69: a free worker of the server
\* handles the request; when it answers at once the simulator has its response,
\* otherwise it waits
client_post ==
    /\ sim.state = "sending"
    /\ \E w \in Workers :
          /\ ingest_eeg_data(w, payload(sim.recording_id, sim.i))
          /\ LET sent == [sim EXCEPT !.posted = Append(@, request'[w].chunk_index),
                                     !.worker = w]
             IN sim' = IF pc'[w] = "staged"
                       THEN [sent EXCEPT !.state = "waiting"]
                       ELSE on_response(sent, response'[w].status)

\* the server ends the request the simulator waits for, and answers
client_response ==
    /\ sim.state = "waiting"
    /\ commit(sim.worker) \/ commit_fails(sim.worker)
    /\ sim' = on_response(sim, response'[sim.worker].status)

\* the server is not reached: client.post raises an httpx.HTTPError (lines 73-75)
client_connect_error ==
    /\ sim.state = "sending"
    /\ sim' = [sim EXCEPT !.state = "stopped",
                          !.posted = Append(@, payload(sim.recording_id, sim.i).chunk_index),
                          !.replies = Append(@, "connect_error")]
    /\ UNCHANGED <<eeg_samples, ingestion_log, pc, request, session, response, query, nreq>>

\* httpx.Client(timeout=30.0), line 59: no answer in time is an httpx.HTTPError
\* too (lines 73-75); the server goes on with the request
client_timeout ==
    /\ sim.state = "waiting"
    /\ sim' = [sim EXCEPT !.state = "stopped", !.replies = Append(@, "timeout")]
    /\ UNCHANGED <<eeg_samples, ingestion_log, pc, request, session, response, query, nreq>>

\* the server ends a request whose client gave up
orphan_ends ==
    \E w \in Workers :
        /\ sim.state = "waiting" => w # sim.worker
        /\ commit(w) \/ commit_fails(w)
        /\ UNCHANGED sim

----------------------------------------------------------------------------
(* Specifications *)

Init ==
    /\ eeg_samples = <<>>
    /\ ingestion_log = <<>>
    /\ pc = [w \in Workers |-> "idle"]
    /\ request = [w \in Workers |-> NoRequest]
    /\ session = [w \in Workers |-> EmptySession]
    /\ response = [w \in Workers |-> NoResponse]
    /\ query = NoQuery
    /\ nreq = 0
    /\ sim = SimOff

\* a pool of workers serving requests concurrently
Next ==
    \E w \in Workers :
        \/ nreq < MaxRequests /\ UNCHANGED sim /\ \E body \in Bodies : ingest_eeg_data(w, body)
        \/ commit(w) /\ UNCHANGED sim
        \/ commit_fails(w) /\ UNCHANGED sim

Spec == Init /\ [][Next]_vars

\* one worker serving the requests one after the other
NextSeq ==
    \/ nreq < MaxRequests /\ UNCHANGED sim /\ \E body \in SeqBodies : ingest_eeg_data("w1", body)
    \/ commit("w1") /\ UNCHANGED sim
    \/ commit_fails("w1") /\ UNCHANGED sim

SpecSeq == Init /\ [][NextSeq]_vars

\* one worker ingesting, and the queries.  A query changes no table, so one
\* query response is observed between two steps of the ingesting worker.
NextQuery ==
    \/ nreq < MaxRequests /\ UNCHANGED sim /\ \E body \in QueryBodies : ingest_eeg_data("w1", body)
    \/ commit("w1") /\ UNCHANGED sim
    \/ commit_fails("w1") /\ UNCHANGED sim
    \/ /\ query = NoQuery
       /\ UNCHANGED sim
       /\ \E patient_id \in PatientIds, recording_id \in RecordingIds,
             start_sec \in QueryTimes, end_sec \in QueryTimes :
               get_recording_data(patient_id, recording_id, start_sec, end_sec)
    \/ /\ query = NoQuery
       /\ UNCHANGED sim
       /\ \E patient_id \in PatientIds : get_patient_recordings(patient_id)
    \/ /\ query = NoQuery
       /\ UNCHANGED sim
       /\ \E patient_id \in PatientIds, recording_id \in RecordingIds :
             get_recording_summary(patient_id, recording_id)
    \/ query = NoQuery /\ UNCHANGED sim /\ health_check

SpecQuery == Init /\ [][NextQuery]_vars

\* one request of any shape against the empty store
NextShape ==
    \/ nreq = 0 /\ UNCHANGED sim /\ \E body \in ShapeBodies : ingest_eeg_data("w1", body)
    \/ commit("w1") /\ UNCHANGED sim
    \/ commit_fails("w1") /\ UNCHANGED sim

SpecShape == Init /\ [][NextShape]_vars

\* the simulator run, and run again, against the server's pool of workers: a
\* request whose client gave up may still be in work when the next run posts
NextSim ==
    \/ \E recording_id \in RecordingIds, limit \in Limits :
          stream_chunks_to_api(recording_id, limit)
    \/ client_post
    \/ client_connect_error
    \/ client_response
    \/ client_timeout
    \/ orphan_ends

SpecSim == Init /\ [][NextSim]_vars

----------------------------------------------------------------------------
(* Notions the claims are stated in *)

\* the worker of the sequential runs
W == "w1"

Accepted(status) == status = "success"

\* the committed log entries under the dedup key (recording_id, chunk_index)
LogEntries(rid, idx) ==
    { i \in 1 .. Len(ingestion_log) :
        /\ ingestion_log[i].recording_id = rid
        /\ ingestion_log[i].chunk_start_sec.num = idx * ingestion_log[i].chunk_start_sec.den }

\* the committed samples of a recording whose timestamp lies in [idx, idx + 1)
ChunkSamples(rid, idx) ==
    { i \in 1 .. Len(eeg_samples) :
        /\ eeg_samples[i].recording_id = rid
        /\ idx * eeg_samples[i].timestamp_sec.den <= eeg_samples[i].timestamp_sec.num
        /\ eeg_samples[i].timestamp_sec.num < (idx + 1) * eeg_samples[i].timestamp_sec.den }

RECURSIVE SumNumSamples(_)
SumNumSamples(ids) ==
    IF ids = {} THEN 0
    ELSE LET i == CHOOSE x \in ids : TRUE
         IN ingestion_log[i].num_samples + SumNumSamples(ids \ {i})

TablesUnchanged == eeg_samples' = eeg_samples /\ ingestion_log' = ingestion_log

\* worker W receives a request in this step
Submits == nreq' = nreq + 1

----------------------------------------------------------------------------
(* C1: in a sequential run, a valid chunk submitted under a key with no log      *)
(* entry is staged and, once committed, answered "success", leaving exactly one *)
(* log entry and exactly C*S samples for the key; a valid chunk submitted under *)
(* a key that has a log entry is answered "duplicate" and changes neither table: *)
(* the state after two submissions is the state after one.                      *)

C1_Step ==
    /\ (Submits /\ IngestRequest(request'[W]) /\ ValidChunk(request'[W])) =>
          LET b == request'[W]
          IN IF LogEntries(b.recording_id, b.chunk_index) = {}
             THEN pc'[W] = "staged" /\ TablesUnchanged
             ELSE /\ response'[W].status = "duplicate"
                  /\ pc'[W] = "idle"
                  /\ TablesUnchanged
    /\ (pc[W] = "staged" /\ pc'[W] = "idle" /\ response'[W].status # "500"
          /\ ValidChunk(request[W])) =>
          LET b == request[W]
              n == Len(b.channels) * Len(b.data[1])
          IN /\ response'[W].status = "success"
             /\ Cardinality({ i \in 1 .. Len(ingestion_log') :
                                /\ ingestion_log'[i].recording_id = b.recording_id
                                /\ ingestion_log'[i].chunk_start_sec = FracOfInt(b.chunk_index) }) = 1
             /\ Len(ingestion_log') = Len(ingestion_log) + 1
             /\ Len(eeg_samples') = Len(eeg_samples) + n
             /\ Cardinality({ i \in 1 .. Len(eeg_samples') :
                                /\ eeg_samples'[i].recording_id = b.recording_id
                                /\ FracLe(FracOfInt(b.chunk_index), eeg_samples'[i].timestamp_sec)
                                /\ FracLt(eeg_samples'[i].timestamp_sec,
                                          FracOfInt(b.chunk_index + 1)) }) = n

C1_SequentialIdempotence == [][C1_Step]_vars

\* the second submission of an identical valid chunk was answered "duplicate"
C1_Witness ==
    /\ nreq = 2
    /\ pc[W] = "idle"
    /\ response[W].status = "duplicate"
    /\ IngestRequest(request[W])
    /\ ValidChunk(request[W])
    /\ LET b == request[W]
       IN /\ Cardinality(LogEntries(b.recording_id, b.chunk_index)) = 1
          /\ \A i \in LogEntries(b.recording_id, b.chunk_index) :
                ingestion_log[i].checksum = sha256_hexdigest(json_dumps(b.data))
          /\ Cardinality(ChunkSamples(b.recording_id, b.chunk_index))
                = Len(b.channels) * Len(b.data[1])
          /\ Len(b.channels) * Len(b.data[1]) > 1

----------------------------------------------------------------------------
(* C2: in every reachable state the Ingestion Log holds at most one entry per   *)
(* (recording_id, chunk_start_sec) and the Sample Store holds no sample of a    *)
(* chunk twice.                                                                *)

C2_AtMostOneEntryPerKey ==
    \A rid \in RecordingIds, idx \in ChunkIndices :
        /\ Cardinality(LogEntries(rid, idx)) <= 1
        /\ \A i, j \in ChunkSamples(rid, idx) :
              (/\ eeg_samples[i].channel = eeg_samples[j].channel
               /\ eeg_samples[i].timestamp_sec = eeg_samples[j].timestamp_sec) => i = j

----------------------------------------------------------------------------
(* C3: of the requests that submit the same (recording_id, chunk_index), no two *)
(* are answered "success".                                                     *)

C3_OneSuccessPerKey ==
    \A w, v \in Workers :
        (/\ w # v
         /\ pc[w] = "idle" /\ pc[v] = "idle"
         /\ IngestRequest(request[w]) /\ IngestRequest(request[v])
         /\ request[w].recording_id = request[v].recording_id
         /\ request[w].chunk_index = request[v].chunk_index
         /\ response[w].status = "success")
            => response[v].status # "success"

----------------------------------------------------------------------------
(* C4: in every committed state, for each (recording_id, chunk_index) the       *)
(* chunk's samples and its log entry are both persisted or both absent: the     *)
(* samples committed for the key are as many as its log entries record.         *)

C4_AtomicCommit ==
    \A rid \in RecordingIds, idx \in ChunkIndices :
        /\ (LogEntries(rid, idx) = {}) <=> (ChunkSamples(rid, idx) = {})
        /\ Cardinality(ChunkSamples(rid, idx)) = SumNumSamples(LogEntries(rid, idx))

\* a chunk was committed while another worker holds uncommitted rows
C4_Witness ==
    \E w, v \in Workers :
        /\ response[w].status = "success"
        /\ pc[w] = "idle"
        /\ LogEntries(request[w].recording_id, request[w].chunk_index) # {}
        /\ ChunkSamples(request[w].recording_id, request[w].chunk_index) # {}
        /\ pc[v] = "staged"
        /\ session[v].samples # <<>>

----------------------------------------------------------------------------
(* C5: a valid chunk (C channels, S >= 1 samples per row) that is accepted adds *)
(* exactly C*S sample rows: for each channel i and sample j one row with        *)
(* channel = channels[i], value_uv = data[i][j] and timestamp_sec =             *)
(* chunk_index + j/S, which lies in [chunk_index, chunk_index + 1).             *)

C5_RowsOf(rows, b) ==
    LET C == Len(b.channels)
        S == Len(b.data[1])
    IN /\ Len(rows) = C * S
       /\ \A i \in 1 .. C, j \in 0 .. S - 1 :
             LET hits == { k \in 1 .. Len(rows) :
                             /\ rows[k].channel = b.channels[i]
                             /\ rows[k].timestamp_sec.num * S
                                  = (b.chunk_index * S + j) * rows[k].timestamp_sec.den }
             IN /\ Cardinality(hits) = 1
                /\ \A k \in hits : rows[k].value_uv = b.data[i][j + 1]
       /\ \A k \in 1 .. Len(rows) :
             /\ rows[k].recording_id = b.recording_id
             /\ rows[k].timestamp_sec.den > 0
             /\ b.chunk_index * rows[k].timestamp_sec.den <= rows[k].timestamp_sec.num
             /\ rows[k].timestamp_sec.num < (b.chunk_index + 1) * rows[k].timestamp_sec.den

C5_ExpansionExact ==
    (IngestRequest(request[W]) /\ ValidChunk(request[W])) =>
        /\ pc[W] = "staged" => C5_RowsOf(session[W].samples, request[W])
        /\ (pc[W] = "idle" /\ response[W].status = "success") =>
              C5_RowsOf(eeg_samples, request[W])
        /\ pc[W] = "idle" => response[W].status \in {"success", "500"}

\* a chunk of several channels and several samples, of a later second, is stored
C5_Witness ==
    /\ pc[W] = "idle"
    /\ response[W].status = "success"
    /\ ValidChunk(request[W])
    /\ Len(request[W].channels) >= 2
    /\ Len(request[W].data[1]) >= 2
    /\ request[W].chunk_index >= 1
    /\ Len(eeg_samples) = Len(request[W].channels) * Len(request[W].data[1])

----------------------------------------------------------------------------
(* C6: a chunk that violates the shape constraints (data empty, rows of unequal *)
(* length, or len(channels) # len(data)) is rejected with a validation failure  *)
(* before any persistence: both tables stay unchanged and the request never    *)
(* returns "success".                                                          *)

ShapeViolation(b) ==
    \/ Len(b.data) = 0
    \/ ~Rectangular(b.data)
    \/ Len(b.channels) # Len(b.data)

C6_BadShapeRejected ==
    (IngestRequest(request[W]) /\ ShapeViolation(request[W])) =>
        /\ pc[W] = "idle"
        /\ response[W].status = "422"
        /\ eeg_samples = <<>>
        /\ ingestion_log = <<>>

----------------------------------------------------------------------------
(* C7: a chunk whose rows have zero samples (S = 0) fails with a validation     *)
(* error, the outcome of a malformed request and not a server-side failure, and *)
(* nothing of it is persisted.                                                 *)

ZeroSamples(b) ==
    /\ Len(b.data) >= 1
    /\ Len(b.channels) = Len(b.data)
    /\ \A i \in 1 .. Len(b.data) : Len(b.data[i]) = 0

C7_ZeroSamplesValidationError ==
    (IngestRequest(request[W]) /\ ZeroSamples(request[W])) =>
        /\ pc[W] = "idle"
        /\ response[W].status = "422"
        /\ eeg_samples = <<>>
        /\ ingestion_log = <<>>

----------------------------------------------------------------------------
(* C8: a failed ingestion (an exception in the handler, a failed commit or an   *)
(* abort) persists neither samples nor a log entry: both tables are as before   *)
(* the request and the Session holds nothing; a retry of the same valid chunk   *)
(* is therefore staged again, not answered "duplicate", and is answered         *)
(* "success" when its commit goes through.                                     *)

C8_Step ==
    /\ ((Submits \/ pc[W] = "staged") /\ response'[W].status = "500") =>
          /\ TablesUnchanged
          /\ pc'[W] = "idle"
          /\ session'[W] = EmptySession
    /\ (/\ Submits
        /\ pc[W] = "idle" /\ response[W].status = "500"
        /\ request'[W] = request[W]
        /\ ValidChunk(request[W])) =>
          /\ pc'[W] = "staged"
          /\ response'[W].status # "duplicate"
    /\ (pc[W] = "staged" /\ pc'[W] = "idle" /\ ~TablesUnchanged) =>
          response'[W].status = "success"

C8_FailureLeavesNothing == [][C8_Step]_vars

\* the commit of a valid chunk failed and the key has no log entry and no sample
C8_Witness ==
    /\ pc[W] = "idle"
    /\ response[W].status = "500"
    /\ IngestRequest(request[W])
    /\ ValidChunk(request[W])
    /\ LogEntries(request[W].recording_id, request[W].chunk_index) = {}
    /\ ChunkSamples(request[W].recording_id, request[W].chunk_index) = {}
    /\ Len(ingestion_log) >= 1

----------------------------------------------------------------------------
(* C9: a submission that finds a log entry for its (recording_id, chunk_index)  *)
(* writes nothing, whatever its payload: it is answered "duplicate" and the     *)
(* samples, the log with its checksums, and the Session are unchanged.          *)

C9_Step ==
    (/\ Submits
     /\ IngestRequest(request'[W])
     /\ LogEntries(request'[W].recording_id, request'[W].chunk_index) # {}) =>
        /\ response'[W].status = "duplicate"
        /\ TablesUnchanged
        /\ session' = session
        /\ pc'[W] = "idle"

C9_DuplicateWritesNothing == [][C9_Step]_vars

\* a chunk with another payload than the one stored was answered "duplicate"
C9_Witness ==
    /\ pc[W] = "idle"
    /\ response[W].status = "duplicate"
    /\ \E i \in LogEntries(request[W].recording_id, request[W].chunk_index) :
          ingestion_log[i].checksum # sha256_hexdigest(json_dumps(request[W].data))

----------------------------------------------------------------------------
(* C10: recording_data returns exactly the stored samples of the patient and    *)
(* recording with start_sec <= timestamp_sec < end_sec, each as often as it is  *)
(* stored, in ascending order of timestamp_sec.                                *)

C10_InRange(q) ==
    { i \in 1 .. Len(eeg_samples) :
        /\ eeg_samples[i].patient_id = q.patient_id
        /\ eeg_samples[i].recording_id = q.recording_id
        /\ q.start_sec.num * eeg_samples[i].timestamp_sec.den
             <= eeg_samples[i].timestamp_sec.num * q.start_sec.den
        /\ eeg_samples[i].timestamp_sec.num * q.end_sec.den
             < q.end_sec.num * eeg_samples[i].timestamp_sec.den }

C10_Row(i) ==
    [channel |-> eeg_samples[i].channel, timestamp_sec |-> eeg_samples[i].timestamp_sec,
     value_uv |-> eeg_samples[i].value_uv]

C10_RangeQuery ==
    query.endpoint = "data" =>
        LET g == query.samples
            ids == C10_InRange(query)
        IN /\ query.status = "200"
           /\ \A k \in 1 .. Len(g) - 1 : FracLt(g[k].timestamp_sec, g[k + 1].timestamp_sec)
           /\ \A k \in 1 .. Len(g) : \A r \in DOMAIN g[k].rows :
                 /\ r.timestamp_sec = g[k].timestamp_sec
                 /\ g[k].rows[r] >= 1
                 /\ g[k].rows[r] = Cardinality({ i \in ids : C10_Row(i) = r })
           /\ \A i \in ids : \E k \in 1 .. Len(g) : C10_Row(i) \in DOMAIN g[k].rows

\* a query with a stored sample at exactly start_sec and one at exactly end_sec
C10_Witness ==
    /\ query.endpoint = "data"
    /\ Len(query.samples) >= 2
    /\ query.samples[1].timestamp_sec = query.start_sec
    /\ \E i \in 1 .. Len(eeg_samples) :
          /\ eeg_samples[i].patient_id = query.patient_id
          /\ eeg_samples[i].recording_id = query.recording_id
          /\ eeg_samples[i].timestamp_sec = query.end_sec

----------------------------------------------------------------------------
(* C11: list_recordings and recording_summary answer not-found exactly when no  *)
(* stored sample matches the patient (and recording); they never answer a       *)
(* successful summary with total_samples = 0.                                  *)

C11_Matching(q) ==
    { i \in 1 .. Len(eeg_samples) :
        /\ eeg_samples[i].patient_id = q.patient_id
        /\ q.endpoint = "summary" => eeg_samples[i].recording_id = q.recording_id }

C11_NotFoundIffNoSample ==
    query.endpoint \in {"recordings", "summary"} =>
        /\ query.status \in {"200", "404"}
        /\ (query.status = "404") <=> (C11_Matching(query) = {})
        /\ query.status = "200" => query.total_samples >= 1

\* a stored recording asked for under a patient it does not belong to
C11_Witness ==
    /\ query.endpoint = "summary"
    /\ query.status = "404"
    /\ query.patient_id = <<"b">>
    /\ \E i \in 1 .. Len(eeg_samples) : eeg_samples[i].recording_id = query.recording_id
    /\ \E i \in 1 .. Len(eeg_samples) : eeg_samples[i].patient_id = query.patient_id

----------------------------------------------------------------------------
(* C12: recording_data never answers not-found: for an unknown patient or       *)
(* recording and for an inverted range too it answers 200, with an empty        *)
(* sample sequence when no stored sample falls in the range.                   *)

C12_AlwaysOk ==
    query.endpoint = "data" =>
        /\ query.status = "200"
        /\ "samples" \in DOMAIN query
        /\ (\A i \in 1 .. Len(eeg_samples) :
               ~(/\ eeg_samples[i].patient_id = query.patient_id
                 /\ eeg_samples[i].recording_id = query.recording_id
                 /\ FracLe(query.start_sec, eeg_samples[i].timestamp_sec)
                 /\ FracLt(eeg_samples[i].timestamp_sec, query.end_sec)))
              => query.samples = <<>>

\* an inverted range on a stored recording
C12_Witness ==
    /\ query.endpoint = "data"
    /\ FracLt(query.end_sec, query.start_sec)
    /\ query.samples = <<>>
    /\ \E i \in 1 .. Len(eeg_samples) :
          /\ eeg_samples[i].patient_id = query.patient_id
          /\ eeg_samples[i].recording_id = query.recording_id

----------------------------------------------------------------------------
(* C13: after any sequence of ingest requests, list_recordings(p) reports as    *)
(* total_samples the number of samples of the accepted chunks of all recordings *)
(* whose derived patient is p, duplicates counted once, and as channels their   *)
(* distinct channel names; recording_summary(p, r) the same for recording r.    *)

\* the accepted chunks (log entries) a summary is about
C13_Chunks(q) ==
    { i \in 1 .. Len(ingestion_log) :
        /\ split0(ingestion_log[i].recording_id) = q.patient_id
        /\ q.endpoint = "summary" => ingestion_log[i].recording_id = q.recording_id }

\* the channels sent for a recording (QueryBodies)
C13_ChannelsOf(rid) ==
    { b.channels[k] : <<b, k>> \in { <<b, k>> \in QueryBodies \X (1 .. MaxChannels) :
                                        b.recording_id = rid /\ k <= Len(b.channels) } }

C13_Totals ==
    query.endpoint \in {"recordings", "summary"} =>
        LET accepted == C13_Chunks(query)
        IN IF accepted = {} THEN query.status = "404"
           ELSE /\ query.status = "200"
                /\ query.total_samples = SumNumSamples(accepted)
                /\ query.channels
                     = UNION { C13_ChannelsOf(ingestion_log[i].recording_id) : i \in accepted }

\* a patient with two recordings of different channels, each summed on its own
C13_Witness ==
    /\ query.endpoint = "summary"
    /\ query.status = "200"
    /\ query.recording_id = <<"a", "_", "1">>
    /\ \E i \in 1 .. Len(eeg_samples) : eeg_samples[i].recording_id = <<"a", "_", "2">>

----------------------------------------------------------------------------
(* C14: a POST that lacks a required field (recording_id, chunk_index,          *)
(* channels, data, timestamp) is answered 422, stages and writes nothing, and   *)
(* does not affect the dedup check: a well-formed valid chunk submitted next    *)
(* under a key with no log entry is still accepted.                             *)

C14_Complete(b) == RequiredFields \subseteq DOMAIN b

C14_Step ==
    /\ (Submits /\ ~C14_Complete(request'[W])) =>
          /\ response'[W].status = "422"
          /\ TablesUnchanged
          /\ session' = session
          /\ pc'[W] = "idle"
    /\ (Submits /\ response[W].status = "422" /\ C14_Complete(request'[W])
          /\ ValidChunk(request'[W])
          /\ LogEntries(request'[W].recording_id, request'[W].chunk_index) = {}) =>
          pc'[W] = "staged"

C14_ValidationError == [][C14_Step]_vars

\* a body with four of the five fields refused after a chunk was accepted
C14_Witness ==
    /\ response[W].status = "422"
    /\ Cardinality(DOMAIN request[W]) = Cardinality(RequiredFields) - 1
    /\ "timestamp" \notin DOMAIN request[W]
    /\ Len(ingestion_log) = 1
    /\ Len(eeg_samples) >= 1

----------------------------------------------------------------------------
(* C15: every stored sample and every log entry carries as patient_id the part  *)
(* of its recording_id before the first "_" (the whole id when there is none),  *)
(* and a recording query returns samples only under that patient_id.           *)

C15_Prefix(rid) ==
    LET seps == { k \in 1 .. Len(rid) : rid[k] = "_" }
    IN IF seps = {} THEN rid
       ELSE SubSeq(rid, 1, (CHOOSE k \in seps : \A j \in seps : k <= j) - 1)

C15_DerivedPatient ==
    /\ \A i \in 1 .. Len(eeg_samples) :
          eeg_samples[i].patient_id = C15_Prefix(eeg_samples[i].recording_id)
    /\ \A i \in 1 .. Len(ingestion_log) :
          ingestion_log[i].patient_id = C15_Prefix(ingestion_log[i].recording_id)
    /\ (query.endpoint = "data" /\ query.samples # <<>>) =>
          query.patient_id = C15_Prefix(query.recording_id)
    /\ (query.endpoint = "summary" /\ query.status = "200") =>
          query.patient_id = C15_Prefix(query.recording_id)

\* a recording with a separator and one without are stored, and the first is
\* returned under its prefix
C15_Witness ==
    /\ query.endpoint = "data"
    /\ query.samples # <<>>
    /\ query.patient_id = <<"a">>
    /\ \E i \in 1 .. Len(eeg_samples) : eeg_samples[i].patient_id = <<"b">>

----------------------------------------------------------------------------
(* C16: samples and log entries are immutable and never deleted: in every step  *)
(* each table keeps its rows, in place and unchanged, and may only gain rows at *)
(* the end; list_recordings, recording_summary, recording_data and health leave *)
(* both tables unchanged.                                                      *)

C16_Extends(old, new) ==
    /\ Len(old) <= Len(new)
    /\ \A i \in 1 .. Len(old) : new[i] = old[i]

C16_Step ==
    /\ C16_Extends(eeg_samples, eeg_samples')
    /\ C16_Extends(ingestion_log, ingestion_log')
    /\ query'.endpoint \in {"recordings", "summary", "data", "health"} => TablesUnchanged

C16_AppendOnly == [][C16_Step]_vars

\* a read answered after two chunks were committed
C16_Witness ==
    /\ query.endpoint = "health"
    /\ Len(ingestion_log) = 2
    /\ Len(eeg_samples) >= 2

----------------------------------------------------------------------------
(* C17: the log entry written by an accepted submission has chunk_start_sec =   *)
(* chunk_index, chunk_end_sec = chunk_index + 1 and num_samples equal to the    *)
(* number of sample rows persisted for the chunk in the same commit, for every  *)
(* request the handler accepts, rectangular or not.  (One request is served, so *)
(* the tables hold what its commit wrote.)                                      *)

C17_LogEntryMatchesRows ==
    (pc[W] = "idle" /\ response[W].status = "success") =>
        /\ Len(ingestion_log) = 1
        /\ ingestion_log[1].chunk_start_sec = FracOfInt(request[W].chunk_index)
        /\ ingestion_log[1].chunk_end_sec = FracOfInt(request[W].chunk_index + 1)
        /\ ingestion_log[1].num_samples = Len(eeg_samples)

----------------------------------------------------------------------------
(* C18: the dedup key is exactly (recording_id, chunk_index): in a sequential   *)
(* run a submission is answered "duplicate" if and only if a chunk with the     *)
(* same recording_id and chunk_index was accepted before (it has a log entry);  *)
(* an accepted chunk of another recording or of another chunk_index never       *)
(* causes "duplicate", and a step changes the samples of no other recording    *)
(* and of no other chunk.                                                      *)

\* the stored samples of a chunk, in table order
C18_Rows(samples, rid, idx) ==
    LET Test(r) == /\ r.recording_id = rid
                   /\ idx * r.timestamp_sec.den <= r.timestamp_sec.num
                   /\ r.timestamp_sec.num < (idx + 1) * r.timestamp_sec.den
    IN SelectSeq(samples, Test)

C18_Step ==
    /\ (Submits /\ C14_Complete(request'[W])) =>
          ((response'[W].status = "duplicate")
             <=> (LogEntries(request'[W].recording_id, request'[W].chunk_index) # {}))
    /\ C14_Complete(request'[W]) =>
          \A rid \in RecordingIds, idx \in ChunkIndices :
              <<rid, idx>> # <<request'[W].recording_id, request'[W].chunk_index>> =>
                  C18_Rows(eeg_samples', rid, idx) = C18_Rows(eeg_samples, rid, idx)

C18_DedupKey == [][C18_Step]_vars

\* two chunks of one recording, of different chunk_index, are both accepted
C18_Witness ==
    /\ Len(ingestion_log) = 2
    /\ ingestion_log[1].recording_id = ingestion_log[2].recording_id
    /\ ingestion_log[1].chunk_start_sec # ingestion_log[2].chunk_start_sec
    /\ response[W].status = "success"
    /\ C18_Rows(eeg_samples, request[W].recording_id, request[W].chunk_index) # <<>>

----------------------------------------------------------------------------
(* C19: the chunk windows of a recording are disjoint: after any sequence of    *)
(* valid accepted chunks, recording_data(patient, recording, k, k + 1) returns  *)
(* exactly the C*S samples of the chunk accepted with chunk_index = k, nothing  *)
(* of the chunks k - 1 and k + 1, and no sample when no chunk k was accepted.   *)

\* the rows of a chunk as the response carries them
C19_RowsOfChunk(b) ==
    LET S == Len(b.data[1])
    IN { [channel |-> b.channels[i],
          timestamp_sec |-> Frac(b.chunk_index * S + j, S),
          value_uv |-> b.data[i][j + 1]] : i \in 1 .. Len(b.channels), j \in 0 .. S - 1 }

\* the rows of a response, and how many there are
C19_Returned(g) == UNION { DOMAIN g[n].rows : n \in 1 .. Len(g) }

RECURSIVE C19_Count(_)
C19_Count(g) ==
    IF g = <<>> THEN 0
    ELSE LET rows == Head(g).rows
             Sum[D \in SUBSET DOMAIN rows] ==
                 IF D = {} THEN 0
                 ELSE LET r == CHOOSE x \in D : TRUE IN rows[r] + Sum[D \ {r}]
         IN Sum[DOMAIN rows] + C19_Count(Tail(g))

C19_Window ==
    \A k \in ChunkIndices :
        (/\ query.endpoint = "data"
         /\ query.patient_id = C15_Prefix(query.recording_id)
         /\ query.start_sec = [num |-> k, den |-> 1]
         /\ query.end_sec = [num |-> k + 1, den |-> 1]) =>
            LET sent == { b \in QueryBodies :
                            b.recording_id = query.recording_id /\ b.chunk_index = k }
            IN IF LogEntries(query.recording_id, k) = {}
               THEN query.samples = <<>>
               ELSE \E b \in sent :
                      /\ C19_Returned(query.samples) = C19_RowsOfChunk(b)
                      /\ C19_Count(query.samples) = Len(b.channels) * Len(b.data[1])

\* chunks 0 and 1 of a recording are stored and the window of chunk 1 is read
C19_Witness ==
    /\ query.endpoint = "data"
    /\ query.start_sec = [num |-> 1, den |-> 1]
    /\ query.end_sec = [num |-> 2, den |-> 1]
    /\ Len(query.samples) >= 2
    /\ LogEntries(query.recording_id, 0) # {}
    /\ LogEntries(query.recording_id, 1) # {}

----------------------------------------------------------------------------
(* C20: the simulator posts the chunks of a run one after the other with        *)
(* chunk_index 0, 1, 2, ...; it posts chunk i + 1 only after the answer to      *)
(* chunk i came without an HTTP error, and posts nothing after the first        *)
(* HTTP error; so the chunk indices of a run answered "success" or "duplicate" *)
(* are a prefix 0..n-1 without gaps, and "duplicate" does not stop the run.     *)

C20_Ok(status) == status \in {"success", "duplicate"}

C20_SequentialPrefix ==
    LET p == sim.posted
        r == sim.replies
        done == { p[n] : n \in { m \in 1 .. Len(r) : C20_Ok(r[m]) } }
    IN /\ \A n \in 1 .. Len(p) : p[n] = n - 1
       /\ Len(r) <= Len(p) /\ Len(p) <= Len(r) + 1
       /\ Len(p) = Len(r) + 1 <=> sim.state = "waiting"
       /\ \A n \in 1 .. Len(r) : n < Len(p) => C20_Ok(r[n])
       /\ done = 0 .. Cardinality(done) - 1
       /\ sim.state = "stopped" <=> (r # <<>> /\ ~C20_Ok(r[Len(r)]))
       /\ (r # <<>> /\ Len(r) = Len(p) /\ C20_Ok(r[Len(r)])) =>
             sim.state = (IF Len(r) = sim.total THEN "done" ELSE "sending")

\* a second run whose first chunk is answered duplicate goes on to the end
C20_Witness ==
    /\ sim.run = 2
    /\ sim.state = "done"
    /\ Len(sim.replies) >= 2
    /\ sim.replies[1] = "duplicate"
    /\ sim.replies[Len(sim.replies)] = "success"

----------------------------------------------------------------------------
(* C21: running the simulator again is safe: when earlier runs over a recording *)
(* were interrupted after some of its chunks, and the recording is then         *)
(* streamed again from chunk 0 to its end, after the earlier run has returned,  *)
(* both tables are what one uninterrupted run writes, and the run is answered   *)
(* "duplicate" for the chunks ingested before and "success" for the others.     *)

\* what one uninterrupted run over chunks 0 .. n - 1 of a recording writes
RECURSIVE C21_OneRun(_, _)
C21_OneRun(rid, n) ==
    IF n = 0 THEN EmptySession
    ELSE LET before == C21_OneRun(rid, n - 1)
             st == stage(payload(rid, n - 1))
         IN [samples |-> before.samples \o st.samples, log |-> before.log \o st.log]

\* a later run over the recording has ended after its last chunk, the server
\* has ended every request, and nothing but chunks of this run's recording
\* was ever stored
C21_RerunDone ==
    /\ sim.run >= 2
    /\ sim.state = "done"
    /\ \A w \in Workers : pc[w] = "idle"
    /\ \A n \in 1 .. Len(ingestion_log) :
          /\ ingestion_log[n].recording_id = sim.recording_id
          /\ FracLt(ingestion_log[n].chunk_start_sec, FracOfInt(sim.total))

C21_RerunSafe ==
    C21_RerunDone =>
        /\ eeg_samples = C21_OneRun(sim.recording_id, sim.total).samples
        /\ ingestion_log = C21_OneRun(sim.recording_id, sim.total).log
        /\ \E k \in 0 .. sim.total :
              sim.replies = [n \in 1 .. sim.total |->
                               IF n <= k THEN "duplicate" ELSE "success"]

====
